---------------------------- MODULE Spec2Model ----------------------------
(***************************************************************************)
(* Model of the pipeline orchestrator of src/okmall/orchestrator.py: the   *)
(* class Orchestrator, its two tables (pipeline_batches, pipeline_control),*)
(* the per-stage semaphores and the thread pool of brand pipelines.        *)
(*                                                                         *)
(* One orchestrator process runs at a time.  A run is: __init__, connect,  *)
(* get_or_create_batch, get_target_brands + UPDATE total_brands + submit,  *)
(* the brand pipelines (threads), finish_batch.  The process can be killed *)
(* at any point (Kill); the tables survive, the threads and semaphores do  *)
(* not.  A database statement is one atomic step (db_lock is taken and     *)
(* released inside get_stage_status / update_stage_status); SpecLocks       *)
(* splits the stage body of a pipeline into the steps that take db_lock,   *)
(* run the statement and give it back.                                     *)
(***************************************************************************)
EXTENDS Integers, Sequences, FiniteSets, TLC

VARIABLES
    mall_brands,   \* table mall_brands: the catalog rows (read only)
    batches,       \* table pipeline_batches: sequence of rows, batch_id = index
    control,       \* table pipeline_control: (batch_id, mall, brand, stage) -> row
    orch,          \* the Orchestrator object and the position of run()
    task,          \* one process_brand_pipeline thread per target brand
    stage_locks,   \* self.stage_locks: stage -> value of its Semaphore(1)
    launched,      \* history: per brand, the stages whose worker this run launched
    db_lock        \* self.db_lock: the brands whose pipeline holds it ({}: free)

vars == <<mall_brands, batches, control, orch, task, stage_locks, launched, db_lock>>

None == "None"

\* self.batch_id = None (batch ids are the row numbers 1, 2, ...)
NoBatch == 0

\* ------------------------------------------------------------------ bounds
\* rows the table pipeline_batches may hold (a run that would need one more
\* is not started)
MaxBatches == 2

\* --------------------------------------------------------------- constants
ALL_STAGES == <<"COLLECT", "CONVERT", "IMAGE", "PRICE", "REGISTER">>

StageNames == {ALL_STAGES[i] : i \in 1..Len(ALL_STAGES)}

RunModes == {"FULL", "PARTIAL"}

\* the stages a PARTIAL run marks DONE without running them
PartialSkipStages == {"CONVERT", "IMAGE"}

\* an entity is keyed in pipeline_control by (mall_name, brand_name)
MallOf(e) == e[1]

BrandOf(e) == e[2]

\* str.upper() / SQL UPPER() on the brand names of the model
Upper(name) ==
    CASE name = "ami" -> "AMI"
      [] name = "nike" -> "NIKE"
      [] name = "apc" -> "APC"
      [] OTHER -> name

\* ALL_STAGES.index(stage) + 1
StageIndex(stage) == CHOOSE i \in 1..Len(ALL_STAGES) : ALL_STAGES[i] = stage

\* mutant: --until is ignored
ActiveStagesAll(until_stage) == ALL_STAGES

\* self.stages, from the --until option (None: every stage)
ActiveStages(until_stage) ==
    IF until_stage # None
    THEN SubSeq(ALL_STAGES, 1, StageIndex(Upper(until_stage)))
    ELSE ALL_STAGES

\* self.final_stage = self.stages[-1]
FinalStage(stages) == stages[Len(stages)]

\* the scripts execute_worker runs for a stage, in order
Commands(stage) ==
    CASE stage = "COLLECT" -> <<"okmall_all_brands_collector.py">>
      [] stage = "CONVERT" -> <<"raw_to_ace_converter.py">>
      [] stage = "IMAGE" -> <<"image_collector_parallel.py", "r2_image_uploader.py">>
      [] stage = "PRICE" -> <<"buyma_lowest_price_collector.py">>
      [] stage = "REGISTER" -> <<"buyma_product_register.py">>
      [] OTHER -> << >>

\* ------------------------------------------------------------------ tables
\* no row: get_stage_status answers PENDING.  started_at is NOW() of the
\* INSERT that created the row; the model keeps, in place of the clock value,
\* which write that was (the status it inserted).
NoRow == [status |-> "PENDING", error_msg |-> None, started_at |-> None]

EntityOf(r) == <<r.mall_name, r.mall_brand_name_en>>

\* the entities a run can target (rows of pipeline_control exist for no other)
Brands == {EntityOf(r) : r \in {x \in mall_brands : x.is_active = 1}}

ControlKeys == (1..MaxBatches) \X Brands \X StageNames

\* get_stage_status: the status of the row, 'PENDING' when there is none
get_stage_status(batch_id, e, stage) == control[<<batch_id, e, stage>>].status

\* mutant: the UPDATE branch does not overwrite error_msg with NULL
update_stage_status_keeps_msg(batch_id, e, stage, status, error_msg) ==
    [control EXCEPT ![<<batch_id, e, stage>>] =
        IF @ = NoRow
        THEN [status |-> status, error_msg |-> error_msg, started_at |-> status]
        ELSE [@ EXCEPT !.status = status,
                       !.error_msg = IF error_msg = None THEN @ ELSE error_msg]]

\* mutant: the UPDATE branch sets started_at = NOW() too
update_stage_status_restamps(batch_id, e, stage, status, error_msg) ==
    [control EXCEPT ![<<batch_id, e, stage>>] =
        [status |-> status, error_msg |-> error_msg, started_at |-> status]]

\* update_stage_status: INSERT ... ON DUPLICATE KEY UPDATE status, error_msg
update_stage_status(batch_id, e, stage, status, error_msg) ==
    [control EXCEPT ![<<batch_id, e, stage>>] =
        IF @ = NoRow
        THEN [status |-> status, error_msg |-> error_msg, started_at |-> status]
        ELSE [@ EXCEPT !.status = status, !.error_msg = error_msg]]

\* mutant: the query forgets the run_mode condition
RunningBatchesAnyMode(run_mode) ==
    {b \in 1..Len(batches) : batches[b].status = "RUNNING"}

\* mutant: the query looks for the wrong status
RunningBatchesCompleted(run_mode) ==
    {b \in 1..Len(batches) :
        batches[b].status = "COMPLETED" /\ batches[b].run_mode = run_mode}

\* SELECT batch_id FROM pipeline_batches WHERE status='RUNNING' AND run_mode=%s
RunningBatches(run_mode) ==
    {b \in 1..Len(batches) :
        batches[b].status = "RUNNING" /\ batches[b].run_mode = run_mode}

\* get_target_brands: the active catalog rows that pass the filters
get_target_brands(mall_filter, brand_filter, exclude_brands) ==
    {r \in mall_brands :
        /\ r.is_active = 1
        /\ (mall_filter # None => r.mall_name = mall_filter)
        /\ (brand_filter # None => Upper(r.mall_brand_name_en) = Upper(brand_filter))
        /\ Upper(r.mall_brand_name_en) \notin {Upper(x) : x \in exclude_brands}}

\* SELECT COUNT(DISTINCT brand_name) ... WHERE batch_id, stage, status='DONE'
SuccessCount(batch_id, final_stage) ==
    Cardinality({BrandOf(e) : e \in
        {x \in Brands : control[<<batch_id, x, final_stage>>].status = "DONE"}})

\* ------------------------------------------------------------------- state
\* a pipeline thread: its position, the loop index of `for stage in
\* self.stages`, the command execute_worker is at, and the local `status`
\* read by get_stage_status (None outside a stage execution)
NoTask == [pc |-> "none", idx |-> 0, unit |-> 0, status |-> None]

\* The Orchestrator object.  pc is the position of run(); until_stage (the
\* --until argument), resumed (which branch get_or_create_batch took) and
\* prev_batch (the batch the previous process worked on, if it ran in the
\* same run mode; kept until the brands are submitted) are history: the code
\* does not keep them.
IdleOrch ==
    [pc |-> "idle", run_mode |-> None, mall_filter |-> None, brand_filter |-> None,
     exclude_brands |-> {}, until_stage |-> None, stages |-> << >>,
     final_stage |-> None, batch_id |-> NoBatch, resumed |-> FALSE, brands |-> {},
     max_workers |-> 0, prev_batch |-> NoBatch]

\* a pipeline that has ended: returned True, returned False, raised
Terminal == {"ok", "failed", "raised"}

\* a pipeline that occupies a pool thread: waiting for the stage semaphore, or
\* inside the with block: before get_stage_status, before the write of the
\* PARTIAL skip, before the write of RUNNING, waiting for the worker, before
\* the write of the worker's result
Active == {"acquire", "check", "skip", "mark", "exec", "exit0", "nonzero", "exception"}

StageAt(e) == orch.stages[task[e].idx]

TypeOK ==
    /\ Len(batches) <= MaxBatches
    /\ \A b \in 1..Len(batches) :
          /\ batches[b].run_mode \in RunModes
          /\ batches[b].status \in {"RUNNING", "COMPLETED"}
          /\ batches[b].total_brands \in -1..Cardinality(Brands)
          /\ batches[b].success_brands \in -1..Cardinality(Brands)
    /\ \A k \in ControlKeys :
          control[k].status \in {"PENDING", "RUNNING", "DONE", "ERROR"}
    /\ orch.pc \in {"idle", "start", "batch", "pool", "done", "fatal", "killed"}
    /\ \A e \in Brands :
          task[e].pc \in {"none", "queued"} \cup Active \cup Terminal
    /\ db_lock \in SUBSET Brands

Min(a, b) == IF a <= b THEN a ELSE b

Range(seq) == {seq[i] : i \in 1..Len(seq)}

\* catalog rows: the entities of `active` with is_active = 1, the others with 0
Catalog(active, inactive) ==
    {[mall_name |-> MallOf(e), mall_brand_name_en |-> BrandOf(e),
      is_active |-> IF e \in active THEN 1 ELSE 0] : e \in active \cup inactive}

InitWith(catalog) ==
    /\ mall_brands = catalog
    /\ batches = << >>
    /\ control = [k \in ControlKeys |-> NoRow]
    /\ orch = IdleOrch
    /\ task = [e \in Brands |-> NoTask]
    /\ stage_locks = << >>
    /\ launched = [e \in Brands |-> {}]
    /\ db_lock = {}

\* ----------------------------------------------------------------- run()
\* Orchestrator(...) and connect_db: a new process starts when none is running
StartRun(run_mode, until_stage, mall_filter, brand_filter, exclude_brands) ==
    /\ orch.pc \in {"idle", "done", "fatal", "killed"}
    /\ LET stages == ActiveStages(until_stage) IN
       /\ orch' = [pc |-> "start", run_mode |-> run_mode,
                   mall_filter |-> mall_filter, brand_filter |-> brand_filter,
                   exclude_brands |-> {Upper(b) : b \in exclude_brands},
                   until_stage |-> until_stage,
                   stages |-> stages, final_stage |-> FinalStage(stages),
                   batch_id |-> NoBatch, resumed |-> FALSE, brands |-> {},
                   max_workers |-> 0,
                   prev_batch |-> IF orch.run_mode = run_mode
                                  THEN orch.batch_id ELSE NoBatch]
       /\ stage_locks' = [s \in Range(stages) |-> 1]
    /\ task' = [e \in Brands |-> NoTask]
    /\ launched' = [e \in Brands |-> {}]
    /\ UNCHANGED <<db_lock, mall_brands, batches, control>>

\* the row INSERTed for a new batch (-1: a counter not written yet)
NewBatch(run_mode) ==
    [run_mode |-> run_mode, status |-> "RUNNING",
     total_brands |-> -1, success_brands |-> -1]

\* get_or_create_batch.  The new batch_id is the wall clock to the second; the
\* model numbers the rows in creation order (two batches are never created
\* within the same second by runs that do not overlap).
get_or_create_batch ==
    /\ orch.pc = "start"
    /\ IF RunningBatches(orch.run_mode) # {}
       THEN /\ \E b \in RunningBatches(orch.run_mode) :
                 orch' = [orch EXCEPT !.pc = "batch", !.batch_id = b, !.resumed = TRUE]
            /\ UNCHANGED batches
       ELSE /\ batches' = Append(batches, NewBatch(orch.run_mode))
            /\ orch' = [orch EXCEPT !.pc = "batch", !.batch_id = Len(batches) + 1]
    /\ UNCHANGED <<db_lock, mall_brands, control, task, stage_locks, launched>>

\* max_workers = min(len(brands), len(self.stages))
MaxWorkers(n_brands, stages) == Min(n_brands, Len(stages))

\* run(), from get_target_brands to the last executor.submit.
\* ThreadPoolExecutor(max_workers=0) raises ValueError, which run() catches
\* as a fatal error: finish_batch is not reached.
SubmitAll ==
    /\ orch.pc = "batch"
    /\ LET brands == get_target_brands(orch.mall_filter, orch.brand_filter,
                                      orch.exclude_brands)
           mw == MaxWorkers(Cardinality(brands), orch.stages)
           o == [orch EXCEPT !.prev_batch = NoBatch]
       IN /\ batches' = [batches EXCEPT
                            ![orch.batch_id].total_brands = Cardinality(brands)]
          /\ IF mw <= 0
             THEN /\ orch' = [o EXCEPT !.pc = "fatal"]
                  /\ UNCHANGED task
             ELSE /\ orch' = [o EXCEPT !.pc = "pool", !.max_workers = mw,
                                       !.brands = {EntityOf(r) : r \in brands}]
                  /\ task' = [e \in Brands |->
                                IF e \in {EntityOf(r) : r \in brands}
                                THEN [pc |-> "queued", idx |-> 0, unit |-> 0, status |-> None]
                                ELSE NoTask]
    /\ UNCHANGED <<db_lock, mall_brands, control, stage_locks, launched>>

\* -------------------------------------------------- process_brand_pipeline
\* a pool thread takes the task from the executor's queue
Begin(e) ==
    /\ orch.pc = "pool"
    /\ task[e].pc = "queued"
    /\ Cardinality({x \in Brands : task[x].pc \in Active}) < orch.max_workers
    /\ task' = [task EXCEPT ![e] = [pc |-> "acquire", idx |-> 1, unit |-> 0, status |-> None]]
    /\ UNCHANGED <<db_lock, mall_brands, batches, control, orch, stage_locks, launched>>

\* mutant: one lock for all the stages
CanAcquireGlobal(stage) == \A s \in DOMAIN stage_locks : stage_locks[s] > 0

\* mutant: the semaphore never blocks
CanAcquireAlways(stage) == stage \in DOMAIN stage_locks

\* Semaphore.acquire can return
CanAcquire(stage) == stage_locks[stage] > 0

\* with self.stage_locks[stage]: (entry)
Acquire(e) ==
    /\ orch.pc = "pool"
    /\ task[e].pc = "acquire"
    /\ CanAcquire(StageAt(e))
    /\ stage_locks' = [stage_locks EXCEPT ![StageAt(e)] = @ - 1]
    /\ task' = [task EXCEPT ![e].pc = "check"]
    /\ UNCHANGED <<db_lock, mall_brands, batches, control, orch, launched>>

\* mutant: the loop steps over a stage
NextStageSkips(t) ==
    IF t.idx + 1 < Len(orch.stages)
    THEN [pc |-> "acquire", idx |-> t.idx + 2, unit |-> 0, status |-> None]
    ELSE [pc |-> "ok", idx |-> t.idx, unit |-> 0, status |-> None]

\* the task after its stage: the next iteration of the for loop, or return True
NextStage(t) ==
    IF t.idx < Len(orch.stages)
    THEN [pc |-> "acquire", idx |-> t.idx + 1, unit |-> 0, status |-> None]
    ELSE [pc |-> "ok", idx |-> t.idx, unit |-> 0, status |-> None]

\* mutant: a failed stage does not end the pipeline (the return is missing)
AbortContinues(t) == NextStage(t)

\* return False
Abort(t) == [pc |-> "failed", idx |-> t.idx, unit |-> 0, status |-> None]

\* mutant: the semaphore is not given back
ReleaseLeaks(stage) == stage_locks

\* with self.stage_locks[stage]: (exit)
Release(stage) == [stage_locks EXCEPT ![stage] = @ + 1]

\* mutant: the DONE short-circuit is missing
SkipDoneNever(status) == FALSE

\* if status == 'DONE': continue
SkipDone(status) == status = "DONE"

\* mutant: the PARTIAL policy is missing
SkipPartialNever(run_mode, stage) == FALSE

\* if self.run_mode == 'PARTIAL' and stage in ['CONVERT', 'IMAGE']
SkipPartial(run_mode, stage) == run_mode = "PARTIAL" /\ stage \in PartialSkipStages

\* the body of the with block up to the first Popen of execute_worker
Check(e) ==
    /\ orch.pc = "pool"
    /\ task[e].pc = "check"
    /\ LET stage == StageAt(e)
           status == get_stage_status(orch.batch_id, e, stage)
       IN IF SkipDone(status)
          THEN /\ stage_locks' = Release(stage)
               /\ task' = [task EXCEPT ![e] = NextStage(@)]
               /\ UNCHANGED <<control, launched>>
          ELSE IF SkipPartial(orch.run_mode, stage)
          THEN /\ control' = update_stage_status(orch.batch_id, e, stage, "DONE",
                                                 "Skipped in PARTIAL mode")
               /\ stage_locks' = Release(stage)
               /\ task' = [task EXCEPT ![e] = NextStage(@)]
               /\ UNCHANGED launched
          ELSE /\ control' = update_stage_status(orch.batch_id, e, stage, "RUNNING", None)
               /\ task' = [task EXCEPT ![e].pc = "exec", ![e].unit = 1,
                                        ![e].status = status]
               /\ launched' = [launched EXCEPT ![e] = @ \cup {stage}]
               /\ UNCHANGED stage_locks
    /\ UNCHANGED <<db_lock, mall_brands, batches, orch>>

\* what one subprocess of execute_worker can do
Outcomes == {"exit0", "nonzero", "exception"}

\* mutant: the loop over the commands stops after the first one
MoreCommandsNever(stage, unit) == FALSE

\* the first failing command ends the for loop of execute_worker
MoreCommands(stage, unit) == unit < Len(Commands(stage))

\* execute_worker, one command: the script exits, or Popen raises
UnitExit(e, outcome) ==
    /\ orch.pc = "pool"
    /\ task[e].pc = "exec"
    /\ LET stage == StageAt(e)
           script == Commands(stage)[task[e].unit]
       IN IF outcome = "exit0"
          THEN IF MoreCommands(stage, task[e].unit)
               THEN /\ task' = [task EXCEPT ![e].unit = @ + 1]
                    /\ UNCHANGED <<control, stage_locks>>
               ELSE /\ control' = update_stage_status(orch.batch_id, e, stage, "DONE", None)
                    /\ stage_locks' = Release(stage)
                    /\ task' = [task EXCEPT ![e] = NextStage(@)]
          ELSE /\ control' = update_stage_status(orch.batch_id, e, stage, "ERROR",
                                 IF outcome = "nonzero" THEN script ELSE "exception")
               /\ stage_locks' = Release(stage)
               /\ task' = [task EXCEPT ![e] = Abort(@)]
    /\ UNCHANGED <<db_lock, mall_brands, batches, orch, launched>>

\* mutant: the main thread goes on after the first future
AllJoinedAny == \E e \in orch.brands : task[e].pc \in Terminal

\* as_completed has yielded every future and the executor has shut down
AllJoined == \A e \in orch.brands : task[e].pc \in Terminal

\* finish_batch, reached after the with ThreadPoolExecutor block
finish_batch ==
    /\ orch.pc = "pool"
    /\ AllJoined
    /\ batches' = [batches EXCEPT
                      ![orch.batch_id].status = "COMPLETED",
                      ![orch.batch_id].success_brands =
                          SuccessCount(orch.batch_id, orch.final_stage)]
    /\ orch' = [orch EXCEPT !.pc = "done"]
    /\ UNCHANGED <<db_lock, mall_brands, control, task, stage_locks, launched>>

\* the orchestrator process is killed (operator interrupt): its threads, its
\* semaphores and the workers it started go with it, the tables stay
Kill ==
    /\ orch.pc \in {"start", "batch", "pool"}
    /\ orch' = [orch EXCEPT !.pc = "killed"]
    /\ task' = [e \in Brands |-> NoTask]
    /\ stage_locks' = << >>
    /\ db_lock' = {}
    /\ UNCHANGED <<mall_brands, batches, control, launched>>

\* ------------------------------------------------------------ store faults
\* mutant: the fatal-error handler closes the batch
OnFatalCompletes(batch_id) ==
    IF batch_id # NoBatch
    THEN [batches EXCEPT ![batch_id].status = "COMPLETED"]
    ELSE batches

\* except Exception in run(): the error is logged and the connection closed;
\* pipeline_batches is left as it is
OnFatal(batch_id) == batches

\* A store access of the main thread raises: connect_db or get_or_create_batch
\* (no row is inserted), get_target_brands or the UPDATE of total_brands, or
\* finish_batch after the join.  run() catches it as a fatal error.
StoreFault ==
    /\ \/ orch.pc \in {"start", "batch"}
       \/ orch.pc = "pool" /\ AllJoined
    /\ orch' = [orch EXCEPT !.pc = "fatal", !.prev_batch = NoBatch]
    /\ batches' = OnFatal(orch.batch_id)
    /\ UNCHANGED <<db_lock, mall_brands, control, task, stage_locks, launched>>

\* raise out of process_brand_pipeline
Raise(t) == [pc |-> "raised", idx |-> t.idx, unit |-> 0, status |-> None]

\* mutant: an exception of one pipeline is fatal to the run
OnTaskExceptionFatal(o) == [o EXCEPT !.pc = "fatal"]

\* except Exception around future.result(): the exception is logged, the
\* loop over as_completed goes on
OnTaskException(o) == o

\* A store access of a pipeline raises inside the with block: get_stage_status,
\* or an update_stage_status (to RUNNING, to DONE, to ERROR), which then
\* writes nothing.  The with block gives the semaphore back and the
\* exception leaves process_brand_pipeline.
TaskFault(e) ==
    /\ orch.pc = "pool"
    /\ task[e].pc \in {"check", "exec"}
    /\ stage_locks' = Release(StageAt(e))
    /\ task' = [task EXCEPT ![e] = Raise(@)]
    /\ orch' = OnTaskException(orch)
    /\ UNCHANGED <<db_lock, mall_brands, batches, control, launched>>

Pipelines ==
    \E e \in Brands :
        \/ Begin(e)
        \/ Acquire(e)
        \/ Check(e)
        \/ \E outcome \in Outcomes : UnitExit(e, outcome)

\* ------------------------------------------- the stage body, lock by lock
\* the store accesses of a pipeline inside the with block of its stage, each
\* one under db_lock
AtStore == {"check", "skip", "mark"} \cup Outcomes

\* with self.db_lock: (entry) in get_stage_status / update_stage_status
LockDb(e) ==
    /\ orch.pc = "pool"
    /\ task[e].pc \in AtStore
    /\ db_lock = {}
    /\ db_lock' = {e}
    /\ UNCHANGED <<mall_brands, batches, control, orch, task, stage_locks, launched>>

\* mutant: the lock is not given back
UnlockLeaks(holder) == {holder}

\* with self.db_lock: (exit)
Unlock(holder) == {}

\* get_stage_status under the lock, then the two skips of the loop body
ReadStatus(e) ==
    /\ orch.pc = "pool"
    /\ task[e].pc = "check"
    /\ db_lock = {e}
    /\ db_lock' = Unlock(e)
    /\ LET stage == StageAt(e)
           status == get_stage_status(orch.batch_id, e, stage)
       IN IF SkipDone(status)
          THEN /\ stage_locks' = Release(stage)
               /\ task' = [task EXCEPT ![e] = NextStage(@)]
          ELSE /\ task' = [task EXCEPT
                              ![e].pc = IF SkipPartial(orch.run_mode, stage)
                                        THEN "skip" ELSE "mark",
                              ![e].status = status]
               /\ UNCHANGED stage_locks
    /\ UNCHANGED <<mall_brands, batches, control, orch, launched>>

\* update_stage_status(..., 'DONE', "Skipped in PARTIAL mode"); continue
WriteSkipped(e) ==
    /\ orch.pc = "pool"
    /\ task[e].pc = "skip"
    /\ db_lock = {e}
    /\ db_lock' = Unlock(e)
    /\ control' = update_stage_status(orch.batch_id, e, StageAt(e), "DONE",
                                      "Skipped in PARTIAL mode")
    /\ stage_locks' = Release(StageAt(e))
    /\ task' = [task EXCEPT ![e] = NextStage(@)]
    /\ UNCHANGED <<mall_brands, batches, orch, launched>>

\* execute_worker: update_stage_status(..., 'RUNNING'), then the first Popen
WriteRunning(e) ==
    /\ orch.pc = "pool"
    /\ task[e].pc = "mark"
    /\ db_lock = {e}
    /\ db_lock' = Unlock(e)
    /\ control' = update_stage_status(orch.batch_id, e, StageAt(e), "RUNNING", None)
    /\ task' = [task EXCEPT ![e].pc = "exec", ![e].unit = 1]
    /\ launched' = [launched EXCEPT ![e] = @ \cup {StageAt(e)}]
    /\ UNCHANGED <<mall_brands, batches, orch, stage_locks>>

\* process.wait() returns, or Popen raises: the next command is started, or
\* execute_worker goes on to write the result
WorkerExit(e, outcome) ==
    /\ orch.pc = "pool"
    /\ task[e].pc = "exec"
    /\ IF outcome = "exit0" /\ MoreCommands(StageAt(e), task[e].unit)
       THEN task' = [task EXCEPT ![e].unit = @ + 1]
       ELSE task' = [task EXCEPT ![e].pc = outcome]
    /\ UNCHANGED <<db_lock, mall_brands, batches, control, orch, stage_locks, launched>>

\* update_stage_status(..., 'DONE') or (..., 'ERROR', ...), the return of
\* execute_worker and the end of the with block
WriteResult(e) ==
    /\ orch.pc = "pool"
    /\ task[e].pc \in Outcomes
    /\ db_lock = {e}
    /\ db_lock' = Unlock(e)
    /\ LET stage == StageAt(e)
           script == Commands(stage)[task[e].unit]
       IN IF task[e].pc = "exit0"
          THEN /\ control' = update_stage_status(orch.batch_id, e, stage, "DONE", None)
               /\ task' = [task EXCEPT ![e] = NextStage(@)]
          ELSE /\ control' = update_stage_status(orch.batch_id, e, stage, "ERROR",
                                 IF task[e].pc = "nonzero" THEN script ELSE "exception")
               /\ task' = [task EXCEPT ![e] = Abort(@)]
    /\ stage_locks' = Release(StageAt(e))
    /\ UNCHANGED <<mall_brands, batches, orch, launched>>

\* the statement raises under the lock: both with blocks are left, nothing is
\* written, the exception leaves process_brand_pipeline
StoreRaises(e) ==
    /\ orch.pc = "pool"
    /\ task[e].pc \in AtStore
    /\ db_lock = {e}
    /\ db_lock' = Unlock(e)
    /\ stage_locks' = Release(StageAt(e))
    /\ task' = [task EXCEPT ![e] = Raise(@)]
    /\ UNCHANGED <<mall_brands, batches, control, orch, launched>>

PipelinesByLock ==
    \E e \in Brands :
        \/ Begin(e)
        \/ Acquire(e)
        \/ LockDb(e)
        \/ ReadStatus(e)
        \/ WriteSkipped(e)
        \/ WriteRunning(e)
        \/ \E outcome \in Outcomes : WorkerExit(e, outcome)
        \/ WriteResult(e)
        \/ StoreRaises(e)

\* ------------------------------------------------------- specifications
\* a run is started only if pipeline_batches can hold the batch it needs
Room(run_mode, max_batches) ==
    RunningBatches(run_mode) # {} \/ Len(batches) < max_batches

\* Spec: one batch, killed and resumed any number of times.  The same brand
\* is sold by two malls; any run mode, any --until.
Init ==
    InitWith(Catalog({<<"okmall", "NIKE">>, <<"wconcept", "NIKE">>},
                     {<<"okmall", "APC">>}))

Launch ==
    \E run_mode \in RunModes,
       until_stage \in {None, "COLLECT", "CONVERT", "IMAGE", "PRICE"} :
        /\ Room(run_mode, 1)
        /\ StartRun(run_mode, until_stage, None, None, {})

Next ==
    \/ Launch
    \/ get_or_create_batch
    \/ SubmitAll
    \/ Pipelines
    \/ finish_batch
    \/ Kill

Spec == Init /\ [][Next]_vars

\* SpecBatches: one brand, two stages, several batches (of both run
\* modes, completed or interrupted), a --brand filter that may match nothing
InitBatches == InitWith(Catalog({<<"okmall", "AMI">>}, {<<"okmall", "APC">>}))

LaunchBatches ==
    \E run_mode \in RunModes, until_stage \in {"CONVERT"},
       brand_filter \in {None, "nike"} :
        /\ Room(run_mode, MaxBatches)
        /\ StartRun(run_mode, until_stage, None, brand_filter, {})

NextBatches ==
    \/ LaunchBatches
    \/ get_or_create_batch
    \/ SubmitAll
    \/ Pipelines
    \/ finish_batch
    \/ Kill

SpecBatches == InitBatches /\ [][NextBatches]_vars

\* SpecScenario: one uninterrupted FULL run of three brands over the five
\* stages.  The threads of the pool and the worker processes keep running:
\* weak fairness of every step of the run.
ScenarioBrands == {<<"okmall", "AMI">>, <<"okmall", "NIKE">>, <<"okmall", "APC">>}

InitScenario == InitWith(Catalog(ScenarioBrands, {}))

LaunchScenario ==
    /\ orch.pc = "idle"
    /\ StartRun("FULL", None, None, None, {})

NextScenario ==
    \/ LaunchScenario
    \/ get_or_create_batch
    \/ SubmitAll
    \/ Pipelines
    \/ finish_batch

FairScenario ==
    /\ WF_vars(get_or_create_batch)
    /\ WF_vars(SubmitAll)
    /\ WF_vars(finish_batch)
    /\ \A e \in ScenarioBrands :
          /\ WF_vars(Begin(e))
          /\ WF_vars(Acquire(e))
          /\ WF_vars(Check(e))
          /\ WF_vars(\E outcome \in Outcomes : UnitExit(e, outcome))

SpecScenario == InitScenario /\ [][NextScenario]_vars /\ FairScenario

\* SpecFaults: two brands, one or two stages, one batch; the process can be
\* killed and any store access can fail
FaultBrands == {<<"okmall", "AMI">>, <<"okmall", "NIKE">>}

InitFaults == InitWith(Catalog(FaultBrands, {<<"okmall", "APC">>}))

LaunchFaults ==
    \E run_mode \in RunModes, until_stage \in {"COLLECT", "CONVERT"} :
        /\ Room(run_mode, 1)
        /\ StartRun(run_mode, until_stage, None, None, {})

NextFaults ==
    \/ LaunchFaults
    \/ get_or_create_batch
    \/ SubmitAll
    \/ Pipelines
    \/ finish_batch
    \/ Kill
    \/ StoreFault
    \/ \E e \in Brands : TaskFault(e)

SpecFaults == InitFaults /\ [][NextFaults]_vars

\* SpecLive: FULL runs of two brands over two stages on one batch, with a
\* --brand filter that may match no active brand.  The process can be killed
\* and a store access of a pipeline can fail; the store stays reachable for
\* the main thread.  The steps of the program are weakly fair, kills, faults
\* and launches are not.
LaunchLive ==
    \E brand_filter \in {None, "apc"} :
        /\ Room("FULL", 1)
        /\ StartRun("FULL", "CONVERT", None, brand_filter, {})

NextLive ==
    \/ LaunchLive
    \/ get_or_create_batch
    \/ SubmitAll
    \/ Pipelines
    \/ finish_batch
    \/ Kill
    \/ \E e \in Brands : TaskFault(e)

FairLive ==
    /\ WF_vars(get_or_create_batch)
    /\ WF_vars(SubmitAll)
    /\ WF_vars(finish_batch)
    /\ \A e \in FaultBrands :
          /\ WF_vars(Begin(e))
          /\ WF_vars(Acquire(e))
          /\ WF_vars(Check(e))
          /\ WF_vars(\E outcome \in Outcomes : UnitExit(e, outcome))

SpecLive == InitFaults /\ [][NextLive]_vars /\ FairLive

\* SpecPool: FULL runs of three brands over two stages on one batch: more
\* brands than pool threads (max_workers = 2).  The process can be killed.
InitPool == InitWith(Catalog(ScenarioBrands, {}))

LaunchPool ==
    /\ Room("FULL", 1)
    /\ StartRun("FULL", "CONVERT", None, None, {})

NextPool ==
    \/ LaunchPool
    \/ get_or_create_batch
    \/ SubmitAll
    \/ Pipelines
    \/ finish_batch
    \/ Kill

SpecPool == InitPool /\ [][NextPool]_vars

\* SpecLocks: runs of two brands over two stages on one batch, in both run
\* modes, with the store accesses of the pipelines taken apart: db_lock is
\* taken in one step and the statement runs in the next.  The process can be
\* killed and a statement of a pipeline can raise.
LaunchLocks ==
    \E run_mode \in RunModes :
        /\ Room(run_mode, 1)
        /\ StartRun(run_mode, "CONVERT", None, None, {})

NextLocks ==
    \/ LaunchLocks
    \/ get_or_create_batch
    \/ SubmitAll
    \/ PipelinesByLock
    \/ finish_batch
    \/ Kill

SpecLocks == InitFaults /\ [][NextLocks]_vars

\* SpecSubset: FULL runs of two brands on one batch, each run with its own
\* --brand, --exclude and --until.  The process can be killed.
LaunchSubset ==
    \E until_stage \in {"COLLECT", "CONVERT"}, brand_filter \in {None, "ami"},
       exclude_brands \in {{}, {"nike"}} :
        /\ Room("FULL", 1)
        /\ StartRun("FULL", until_stage, None, brand_filter, exclude_brands)

NextSubset ==
    \/ LaunchSubset
    \/ get_or_create_batch
    \/ SubmitAll
    \/ Pipelines
    \/ finish_batch
    \/ Kill

SpecSubset == InitFaults /\ [][NextSubset]_vars

\* ------------------------------------------------------------------ claims
\* brand pipeline e is inside the with block of stage s (it holds the semaphore)
Holding(e, s) == task[e].pc \in Active \ {"acquire"} /\ StageAt(e) = s

Holders(s) == {e \in Brands : Holding(e, s)}

\* C1: mutual exclusion per stage.  In every reachable state and for every
\* stage, at most one brand pipeline holds the stage's semaphore, hence at
\* most one executes the stage's worker, and the semaphore's value is 1 minus
\* the number of holders.
C1_MutualExclusion ==
    \A s \in DOMAIN stage_locks :
        /\ Cardinality(Holders(s)) <= 1
        /\ stage_locks[s] = 1 - Cardinality(Holders(s))

\* C1 witness: one brand executes the worker of a stage while the other waits
\* for the semaphore of that same stage
C1_Witness ==
    \E a \in Brands, b \in Brands :
        /\ a # b
        /\ task[a].pc = "exec"
        /\ task[b].pc = "acquire"
        /\ StageAt(a) = StageAt(b)

\* the status of a row of the current batch
Status(e, s) == control[<<orch.batch_id, e, s>>].status

\* this step starts the first worker process of stage s for brand e
Launches(e, s) ==
    /\ task[e].pc = "check"
    /\ task'[e].pc = "exec"
    /\ StageAt(e) = s

\* C2: resumption idempotence.  Once the row (batch, e, s) is DONE it stays
\* DONE, and no step of this run or of a later run on the same batch starts a
\* worker of stage s for e.
C2_NoRerunOfDone ==
    [][\A k \in ControlKeys :
          control[k].status = "DONE" =>
              /\ control'[k].status = "DONE"
              /\ ~(orch.batch_id = k[1] /\ Launches(k[2], k[3]))]_vars

\* C2 witness: a run that resumed a batch is past a stage it did not launch
\* and that no PARTIAL policy skips: the stage was DONE already
C2_Witness ==
    /\ orch.pc = "pool"
    /\ orch.resumed
    /\ \E e \in orch.brands :
          /\ task[e].pc \in Active
          /\ \E i \in 1..(task[e].idx - 1) :
                /\ orch.stages[i] \notin launched[e]
                /\ ~SkipPartial(orch.run_mode, orch.stages[i])
                /\ Status(e, orch.stages[i]) = "DONE"

\* C5: stage order within an entity.  While a worker of stage S[i] runs for
\* e (from its launch on), every earlier stage of the active list is DONE for
\* e in this batch, and the row of S[i] itself is RUNNING.
C5_StageOrder ==
    \A e \in Brands :
        task[e].pc = "exec" =>
            /\ \A j \in 1..(task[e].idx - 1) : Status(e, orch.stages[j]) = "DONE"
            /\ Status(e, StageAt(e)) = "RUNNING"

\* C5 witness: a brand runs the worker of its third stage after it ran the
\* workers of the first two in this run
C5_Witness ==
    \E e \in Brands :
        /\ task[e].pc = "exec"
        /\ task[e].idx = 3
        /\ {orch.stages[1], orch.stages[2]} \subseteq launched[e]

\* a worker of brand e failed in this run: its pipeline returned False
Failed(e) == task[e].pc = "failed"

\* every stage of the active list is DONE for brand e in the current batch
AllDone(e) ==
    /\ orch.batch_id # NoBatch
    /\ \A i \in 1..Len(orch.stages) : Status(e, orch.stages[i]) = "DONE"

\* C3: failure isolation.  In one batch run, once a worker of brand a has
\* failed, every other brand b eventually has all its stages DONE, unless a
\* worker of b itself fails: a's failure neither stops b's pipeline nor
\* leaves b waiting for a stage semaphore.
C3_FailureIsolation ==
    \A a \in ScenarioBrands : \A b \in ScenarioBrands \ {a} :
        Failed(a) ~> (AllDone(b) \/ Failed(b))

\* C3 witness: a brand failed at its second stage, and another brand, which
\* was behind it then, has all five stages DONE
C3_Witness ==
    \E a \in Brands, b \in Brands :
        /\ a # b
        /\ Failed(a)
        /\ task[a].idx = 2
        /\ AllDone(b)
        /\ launched[b] = StageNames

\* the stages after stage i in the active list
LaterStages(i) == {orch.stages[j] : j \in (i + 1)..Len(orch.stages)}

\* the brands with an ERROR row in the current batch
Errored == {e \in Brands : \E s \in StageNames : Status(e, s) = "ERROR"}

\* C4: a failure aborts only the owner's pipeline.  When a worker of brand e
\* has failed at stage S[i], the row (e, S[i]) is ERROR with a diagnostic, no
\* worker of e is launched for a later stage in this run and the rows of the
\* later stages stay absent.  With three brands, five stages and one brand
\* failing at IMAGE, the run ends with two brands DONE at the final stage and
\* the third with IMAGE = ERROR and no row for PRICE and REGISTER.
C4_FailureAbortsOwner ==
    /\ \A e \in Brands : \A i \in 1..Len(orch.stages) :
          (orch.batch_id # NoBatch /\ Status(e, orch.stages[i]) = "ERROR") =>
              /\ Failed(e)
              /\ task[e].idx = i
              /\ control[<<orch.batch_id, e, orch.stages[i]>>].error_msg # None
              /\ \A s \in LaterStages(i) :
                    s \notin launched[e] /\ Status(e, s) = "PENDING"
    /\ \A e \in Brands :
          Failed(e) => Status(e, StageAt(e)) = "ERROR"
    /\ \A x \in Brands :
          (orch.pc = "done" /\ Errored = {x} /\ Status(x, "IMAGE") = "ERROR") =>
              /\ Cardinality(Brands) = 3
              /\ Len(orch.stages) = 5
              /\ Cardinality({e \in Brands : Status(e, orch.final_stage) = "DONE"}) = 2
              /\ \A e \in Brands \ {x} : AllDone(e)
              /\ Status(x, "PRICE") = "PENDING"
              /\ Status(x, "REGISTER") = "PENDING"

\* C4 witness: the run has ended, one brand failed at IMAGE and the two
\* others went through the five stages
C4_Witness ==
    /\ orch.pc = "done"
    /\ \E x \in Brands :
          /\ Errored = {x}
          /\ Status(x, "IMAGE") = "ERROR"
          /\ launched[x] = {"COLLECT", "CONVERT", "IMAGE"}
          /\ \A e \in Brands \ {x} : task[e].pc = "ok"

\* this step is the call of get_or_create_batch
GetsBatch == orch.pc = "start" /\ orch'.pc = "batch"

\* the RUNNING batches of a run mode, read off the table
RunningOf(run_mode) ==
    {b \in 1..Len(batches) :
        batches[b].status = "RUNNING" /\ batches[b].run_mode = run_mode}

\* C6: batch reuse on resumption.  get_or_create_batch returns the RUNNING
\* batch of the run's mode when there is one and inserts nothing; otherwise it
\* inserts exactly one RUNNING row of that mode and returns its id.  A run
\* started after a run of the same mode that left its batch RUNNING (it was
\* interrupted) works on that batch, and the batch of a run always has the
\* run's mode.
C6_BatchReuse ==
    [][/\ GetsBatch =>
            IF RunningOf(orch.run_mode) # {}
            THEN /\ batches' = batches
                 /\ orch'.batch_id \in RunningOf(orch.run_mode)
            ELSE /\ Len(batches') = Len(batches) + 1
                 /\ SubSeq(batches', 1, Len(batches)) = batches
                 /\ batches'[Len(batches')].status = "RUNNING"
                 /\ batches'[Len(batches')].run_mode = orch.run_mode
                 /\ orch'.batch_id = Len(batches')
       /\ (GetsBatch /\ orch.prev_batch # NoBatch
              /\ batches[orch.prev_batch].status = "RUNNING") =>
            orch'.batch_id = orch.prev_batch
       /\ orch'.batch_id # NoBatch =>
            batches'[orch'.batch_id].run_mode = orch'.run_mode]_vars

\* C6 witness: a restarted run has taken up the batch of the interrupted run
\* while a RUNNING batch of the other mode exists
C6_Witness ==
    /\ orch.pc = "batch"
    /\ orch.resumed
    /\ orch.prev_batch = orch.batch_id
    /\ \E b \in 1..Len(batches) :
          batches[b].status = "RUNNING" /\ batches[b].run_mode # orch.run_mode

\* C7 (as claimed): retry by re-running.  When the previous run of the same
\* run mode left a stage of a brand in ERROR, the next run resumes that batch
\* (so that its DONE stages are not run again).
C7_RerunResumes ==
    (/\ orch.pc = "batch"
     /\ orch.prev_batch # NoBatch
     /\ \E e \in Brands, s \in StageNames :
           control[<<orch.prev_batch, e, s>>].status = "ERROR")
        => orch.batch_id = orch.prev_batch

\* no brand pipeline is running or queued, no worker runs, no semaphore is held
Quiet ==
    /\ \A e \in orch.brands : task[e].pc \in Terminal
    /\ \A e \in Brands : task[e].pc \notin Active \cup {"queued"}
    /\ \A s \in DOMAIN stage_locks : stage_locks[s] = 1

\* Finalization is last and not repeated.  A batch goes from RUNNING to
\* COMPLETED only by the finish_batch of the run working on it, at a moment
\* when every submitted pipeline has returned, no worker runs and no stage
\* semaphore is held; a COMPLETED batch is never touched again.
FinishIsLast ==
    [][/\ \A b \in 1..Len(batches) :
             /\ (batches[b].status = "RUNNING" /\ batches'[b].status = "COMPLETED") =>
                   /\ orch.pc = "pool"
                   /\ orch.batch_id = b
                   /\ orch.brands # {}
                   /\ Quiet
                   /\ orch'.pc = "done"
             /\ batches[b].status = "COMPLETED" => batches'[b] = batches[b]
       /\ (orch.pc = "done" /\ orch'.pc = "done") => batches' = batches]_vars

\* C8 (as claimed): batch finalization happens exactly once.  A run that has
\* come to its end by itself (run() returned: after finish_batch, or after the
\* fatal-error handler) has called finish_batch, so its batch is COMPLETED.
C8_FinishExactlyOnce ==
    orch.pc \in {"done", "fatal"} =>
        batches[orch.batch_id].status = "COMPLETED"

\* the brands (mall, brand name) whose row of stage s is DONE in batch b
DoneAt(b, s) == {e \in Brands : control[<<b, e, s>>].status = "DONE"}

\* C9 (as claimed): success accounting.  The success count written by
\* finish_batch is the number of entities (mall, brand) whose row of the final
\* stage of the active list is DONE in the batch.
C9_SuccessCountsEntities ==
    orch.pc = "done" =>
        batches[orch.batch_id].success_brands =
            Cardinality(DoneAt(orch.batch_id, orch.final_stage))

\* the index in ALL_STAGES of the last stage the run was asked for
UntilIndex ==
    IF orch.until_stage = None THEN Len(ALL_STAGES)
    ELSE CHOOSE i \in 1..Len(ALL_STAGES) : ALL_STAGES[i] = orch.until_stage

\* the stages the run was asked not to go beyond
Requested == {ALL_STAGES[i] : i \in 1..UntilIndex}

\* C10: until truncation.  In a run asked for final stage S[k] the active
\* stage list is S[1..k]; no worker of a later stage is launched, no row of a
\* later stage is written (rows left by an earlier run keep their contents),
\* and finish_batch counts the DONE rows of S[k].
C10_UntilTruncation ==
    [][/\ orch.pc # "idle" =>
             /\ orch.stages = SubSeq(ALL_STAGES, 1, UntilIndex)
             /\ orch.final_stage = ALL_STAGES[UntilIndex]
             /\ DOMAIN stage_locks \subseteq Requested
             /\ \A e \in Brands : launched[e] \subseteq Requested
       /\ \A k \in ControlKeys :
             control'[k] # control[k] => (k[1] = orch.batch_id /\ k[3] \in Requested)
       /\ (orch.pc = "pool" /\ orch'.pc = "done") =>
             batches'[orch.batch_id].success_brands =
                 Cardinality({BrandOf(e) : e \in
                     DoneAt(orch.batch_id, ALL_STAGES[UntilIndex])})]_vars

\* C10 witness: a run asked to stop at PRICE has ended; a brand is DONE at
\* PRICE and counted, its REGISTER worker was not launched and the REGISTER
\* row does not exist
C10_Witness ==
    /\ orch.pc = "done"
    /\ orch.until_stage = "PRICE"
    /\ batches[orch.batch_id].success_brands = 1
    /\ \E e \in orch.brands :
          /\ launched[e] = {"COLLECT", "CONVERT", "IMAGE", "PRICE"}
          /\ Status(e, "PRICE") = "DONE"
          /\ Status(e, "REGISTER") = "PENDING"

\* the row of stage s of brand e in the current batch
Row(e, s) == control[<<orch.batch_id, e, s>>]

\* C11: PARTIAL never runs heavy workers.  In a PARTIAL run no step starts a
\* worker of CONVERT or IMAGE, no pipeline is ever executing one, and this run
\* has launched none, whatever the row of the stage held.
C11_PartialRunsNoHeavyWorker ==
    [][orch.run_mode = "PARTIAL" =>
          \A e \in Brands :
              /\ \A s \in PartialSkipStages : ~Launches(e, s)
              /\ task[e].pc = "exec" => StageAt(e) \notin PartialSkipStages
              /\ launched[e] \cap PartialSkipStages = {}]_vars

\* C11 witness: a PARTIAL run has taken a brand past IMAGE; it ran the COLLECT
\* worker, and CONVERT and IMAGE are DONE with the skip note
C11_Witness ==
    /\ orch.run_mode = "PARTIAL"
    /\ \E e \in orch.brands :
          /\ task[e].pc = "exec"
          /\ StageAt(e) = "PRICE"
          /\ "COLLECT" \in launched[e]
          /\ \A s \in PartialSkipStages :
                /\ Row(e, s).status = "DONE"
                /\ Row(e, s).error_msg = "Skipped in PARTIAL mode"

\* a PARTIAL run over the five stages has finished
PartialFinished ==
    /\ orch.pc = "done"
    /\ orch.run_mode = "PARTIAL"
    /\ orch.stages = ALL_STAGES

\* C12 (as claimed): when a PARTIAL run over the full stage list has finished,
\* every target brand has its CONVERT and IMAGE rows DONE.
C12_PartialMarksAllDone ==
    PartialFinished =>
        \A e \in orch.brands : \A s \in PartialSkipStages : Status(e, s) = "DONE"

\* the pipeline of brand e went past stage s (it did not end at or before it)
WentPast(e, s) == task[e].pc = "ok" \/ task[e].idx > StageIndex(s)

\* C12 (amended): when a PARTIAL run over the full stage list has finished,
\* every target brand whose pipeline was not ended at or before the stage
\* (its COLLECT worker did not fail) has its CONVERT and IMAGE rows DONE; a
\* brand whose pipeline ended at COLLECT has no row for them.
C12_PartialMarksReachedDone ==
    PartialFinished =>
        \A e \in orch.brands : \A s \in PartialSkipStages :
            /\ WentPast(e, s) => Status(e, s) = "DONE"
            /\ (task[e].pc = "failed" /\ StageAt(e) = "COLLECT") =>
                  Status(e, s) = "PENDING"

\* C12 witness: a PARTIAL run has finished; one brand went through the five
\* stages, the other failed at COLLECT
C12_Witness ==
    /\ PartialFinished
    /\ \E a \in orch.brands, b \in orch.brands :
          /\ task[a].pc = "ok"
          /\ \A s \in PartialSkipStages : Status(a, s) = "DONE"
          /\ task[b].pc = "failed"
          /\ StageAt(b) = "COLLECT"

Changes(k, from, to) ==
    /\ control[k].status = from
    /\ control'[k].status = to

\* this step changes the status of the existing row k
ChangesStatus(k) ==
    /\ control[k].status # "PENDING"
    /\ control'[k].status # control[k].status

\* C14 (as claimed): StageRecord status is monotonic.  The only status
\* changes of an existing row are RUNNING -> DONE and RUNNING -> ERROR; a row
\* that is DONE or ERROR never goes back to RUNNING.
C14_StatusMonotonic ==
    [][\A k \in ControlKeys :
          ChangesStatus(k) =>
              \/ Changes(k, "RUNNING", "DONE")
              \/ Changes(k, "RUNNING", "ERROR")]_vars

\* C14 (amended): the only status changes of an existing row are
\* RUNNING -> DONE, RUNNING -> ERROR and ERROR -> RUNNING, the last when a run
\* that resumed the batch executes the failed stage again; a DONE row never
\* changes its status and no row is removed.
C14_StatusChanges ==
    [][\A k \in ControlKeys :
          /\ ChangesStatus(k) =>
                \/ Changes(k, "RUNNING", "DONE")
                \/ Changes(k, "RUNNING", "ERROR")
                \/ /\ Changes(k, "ERROR", "RUNNING")
                   /\ orch.resumed
                   /\ orch.batch_id = k[1]
                   /\ Launches(k[2], k[3])
          /\ control[k].status # "PENDING" => control'[k].status # "PENDING"]_vars

\* C14 witness: a worker is running for a stage whose row the pipeline read
\* as ERROR and has set back to RUNNING
C14_Witness ==
    \E e \in Brands :
        /\ task[e].pc = "exec"
        /\ task[e].status = "ERROR"
        /\ Status(e, StageAt(e)) = "RUNNING"

\* the pipeline of brand e raised an exception that is not a worker's
Raised(e) == task[e].pc = "raised"

\* the batch of the run is COMPLETED
Completed ==
    /\ orch.batch_id # NoBatch
    /\ batches[orch.batch_id].status = "COMPLETED"

\* C15 (as claimed): every failure is persisted.  Whenever the pipeline of a
\* brand has ended the run unsuccessfully (it returned False or raised), a
\* row of that brand in the batch is ERROR with a diagnostic.
C15_FailurePersisted ==
    \A e \in Brands :
        (Failed(e) \/ Raised(e)) =>
            \E s \in StageNames :
                /\ Row(e, s).status = "ERROR"
                /\ Row(e, s).error_msg # None

\* this step is an exception leaving the pipeline of brand e
Raises(e) == ~Raised(e) /\ task'[e].pc = "raised"

\* C16 (as claimed): a task-level exception is not fatal, and the brand whose
\* pipeline raised is not counted as a success: when the run has finished,
\* the row of its final stage is not DONE.
C16_RaisedNotCounted ==
    orch.pc = "done" =>
        \A e \in orch.brands :
            Raised(e) => Status(e, orch.final_stage) # "DONE"

\* C16 (amended): when the pipeline of a brand raises, the run goes on: the
\* exception changes nothing but that pipeline and the semaphore it held, the
\* other pipelines run to their end and the batch is finalized as COMPLETED
\* (unless the process is killed).  The pipeline that raised has not set the
\* row of its final stage to DONE: the brand is counted as a success only if
\* that row was DONE before the run, which then resumed the batch and
\* launched no worker for the brand.
C16_TaskExceptionNotFatal ==
    /\ [][\A e \in Brands :
            Raises(e) =>
                /\ orch' = orch
                /\ \A x \in Brands \ {e} : task'[x] = task[x]
                /\ UNCHANGED <<batches, control>>
                /\ stage_locks'[StageAt(e)] = 1]_vars
    /\ [](\A e \in Brands :
            (Raised(e) /\ Status(e, orch.final_stage) = "DONE") =>
                (orch.resumed /\ launched[e] = {}))
    /\ \A e \in FaultBrands :
          Raised(e) ~>
              \/ /\ orch.pc = "done"
                 /\ Completed
                 /\ \A x \in orch.brands : task[x].pc \in Terminal
              \/ orch.pc = "killed"

\* C16 witness: the run has finished and its batch is COMPLETED; the pipeline
\* of one brand raised, the other brand went through its stages in this run
\* and is the one success counted
C16_Witness ==
    /\ orch.pc = "done"
    /\ Completed
    /\ batches[orch.batch_id].success_brands = 1
    /\ \E a \in orch.brands, b \in orch.brands :
          /\ Raised(a)
          /\ Status(a, orch.final_stage) # "DONE"
          /\ task[b].pc = "ok"
          /\ orch.final_stage \in launched[b]

\* C17: a fatal orchestrator fault leaves the batch open.  A step that ends
\* the run in the fatal-error handler (the batch could not be obtained or
\* created, or the store could not be reached) inserts no batch and changes
\* no batch status, finish_batch is not called afterwards, and the batch of
\* that run, if it got one, is still RUNNING when the run has ended.
C17_FatalLeavesBatchOpen ==
    /\ [][/\ (orch.pc # "fatal" /\ orch'.pc = "fatal") =>
                /\ Len(batches') = Len(batches)
                /\ \A b \in 1..Len(batches) : batches'[b].status = batches[b].status
          /\ (orch.pc = "fatal" /\ orch'.pc = "fatal") => batches' = batches
          /\ orch.pc = "fatal" => orch'.pc \in {"fatal", "start"}]_vars
    /\ [](orch.pc = "fatal" /\ orch.batch_id # NoBatch =>
             batches[orch.batch_id].status = "RUNNING")

\* C17 witness: the store failed in finish_batch, after both pipelines had
\* ended with their final stage DONE: the run has ended and the batch is
\* still RUNNING
C17_Witness ==
    /\ orch.pc = "fatal"
    /\ orch.batch_id # NoBatch
    /\ batches[orch.batch_id].status = "RUNNING"
    /\ Cardinality(orch.brands) = 2
    /\ \A e \in orch.brands :
          task[e].pc = "ok" /\ Status(e, orch.final_stage) = "DONE"

\* this step is the kill of the orchestrator process
Killed == orch.pc # "killed" /\ orch'.pc = "killed"

\* a run has obtained the batch an earlier run left RUNNING
Restarted == orch.pc = "batch" /\ orch.resumed

\* A kill leaves the batch of the run RUNNING and the table of stage rows as
\* it is, each row with one valid status.
KillKeepsTables ==
    [][Killed =>
          /\ orch.batch_id # NoBatch => batches'[orch.batch_id].status = "RUNNING"
          /\ UNCHANGED <<batches, control>>
          /\ \A k \in ControlKeys :
                control[k].status \in {"PENDING", "RUNNING", "DONE", "ERROR"}]_vars

\* A pipeline that finds the row of its stage RUNNING (left by a killed run)
\* launches the worker of the stage again, unless the store access fails.
RunningIsRelaunched ==
    [][\A e \in Brands :
          (/\ orch.pc = "pool"
           /\ task[e].pc = "check"
           /\ Status(e, StageAt(e)) = "RUNNING"
           /\ task'[e] # task[e]
           /\ ~SkipPartial(orch.run_mode, StageAt(e)))
              => (Launches(e, StageAt(e)) \/ Raises(e) \/ Killed)]_vars

\* C18 (as claimed): crash consistency and resumability.  A kill leaves the
\* batch RUNNING and every row with one valid status; a restart with the same
\* run mode reuses the batch, launches again the worker of a stage whose row
\* was left RUNNING, and drives the batch to COMPLETED (unless it is killed
\* too).
C18_CrashResumable ==
    /\ KillKeepsTables
    /\ RunningIsRelaunched
    /\ Restarted ~> (Completed \/ orch.pc = "killed")

\* C19 (as claimed): run termination.  For any number of target brands, zero
\* included, a run that has obtained its batch and is not killed joins its
\* pipelines, calls finish_batch and its batch becomes COMPLETED, also when
\* store accesses of pipelines fail.
C19_RunTerminates ==
    (orch.pc = "batch") ~> ((orch.pc = "done" /\ Completed) \/ orch.pc = "killed")

\* brand e waits for (or is about to take) the semaphore of its stage, which
\* is neither DONE nor skipped by the PARTIAL policy
WaitsToRun(e) ==
    /\ orch.pc = "pool"
    /\ task[e].pc = "acquire"
    /\ Status(e, StageAt(e)) # "DONE"
    /\ ~SkipPartial(orch.run_mode, StageAt(e))

\* C20 (as claimed): RUNNING is recorded before the limiter is taken.  A
\* brand waiting for the semaphore of a stage that it is going to run already
\* shows RUNNING for that stage.
C20_RunningBeforeAcquire ==
    \A e \in Brands : WaitsToRun(e) => Status(e, StageAt(e)) = "RUNNING"

\* this step writes RUNNING into the row of stage s of brand e
WritesRunning(e, s) ==
    /\ orch.batch_id # NoBatch
    /\ control'[<<orch.batch_id, e, s>>] # control[<<orch.batch_id, e, s>>]
    /\ control'[<<orch.batch_id, e, s>>].status = "RUNNING"

\* C20 (amended): the limiter is taken before RUNNING is recorded.  For a
\* stage that is neither DONE nor skipped by policy the pipeline first
\* acquires the stage semaphore, then writes RUNNING and invokes the worker,
\* and gives the semaphore back when the invocation returns: RUNNING is
\* written only by the holder of the semaphore, in the step that starts the
\* worker; the semaphore is held and the row RUNNING while the worker runs;
\* and a brand waiting for the semaphore has written nothing for the stage in
\* this run.
C20_AcquireBeforeRunning ==
    [][\A e \in Brands :
          /\ \A s \in StageNames :
                WritesRunning(e, s) =>
                    /\ Holding(e, s)
                    /\ stage_locks[s] = 0
                    /\ Launches(e, s)
          /\ task[e].pc = "exec" =>
                /\ stage_locks[StageAt(e)] = 0
                /\ Status(e, StageAt(e)) = "RUNNING"
          /\ (task[e].pc = "exec" /\ task'[e].pc \notin {"exec", "none"}) =>
                stage_locks'[StageAt(e)] = 1
          /\ task[e].pc = "acquire" => StageAt(e) \notin launched[e]]_vars

\* C20 witness: a brand waits for the semaphore of a stage whose worker
\* another brand is executing, and has no row for that stage yet
C20_Witness ==
    \E a \in Brands, b \in Brands :
        /\ task[a].pc = "exec"
        /\ WaitsToRun(b)
        /\ StageAt(a) = StageAt(b)
        /\ Status(b, StageAt(b)) = "PENDING"

\* brand e has nothing to run at its stage: the row is DONE already, or the
\* PARTIAL policy skips the stage
NothingToRun(e) ==
    \/ Status(e, StageAt(e)) = "DONE"
    \/ SkipPartial(orch.run_mode, StageAt(e))

\* C21 (as claimed): the stage mutex is held only for a stage execution.  A
\* brand whose row of stage s is DONE, or whose stage s the PARTIAL policy
\* skips, is never waiting for the semaphore of s while another brand is
\* executing the worker of s.
C21_SkipNeedsNoMutex ==
    \A a \in Brands, b \in Brands :
        ~(/\ orch.pc = "pool"
          /\ task[a].pc = "exec"
          /\ task[b].pc = "acquire"
          /\ StageAt(a) = StageAt(b)
          /\ NothingToRun(b))

\* C21 (amended): the stage mutex is taken for every stage, before the row is
\* read.  A pipeline leaves the wait for stage s only by acquiring the free
\* semaphore of s, also when its row of s is DONE or the stage is skipped by
\* policy; a skip is made by the holder of the semaphore, launches no worker
\* and gives the semaphore back in the same step.  So a brand that has
\* nothing to run at s still waits while another brand holds s.
C21_SkipTakesMutex ==
    [][\A e \in Brands :
          /\ (orch.pc = "pool" /\ task[e].pc = "acquire"
                 /\ task'[e] # task[e] /\ ~Killed) =>
                /\ task'[e].pc = "check"
                /\ task'[e].idx = task[e].idx
                /\ stage_locks[StageAt(e)] = 1
                /\ stage_locks'[StageAt(e)] = 0
          /\ (orch.pc = "pool" /\ task[e].pc = "check" /\ NothingToRun(e)
                 /\ task'[e] # task[e] /\ ~Killed /\ ~Raises(e)) =>
                /\ stage_locks[StageAt(e)] = 0
                /\ stage_locks'[StageAt(e)] = 1
                /\ launched' = launched
                /\ task'[e] = NextStage(task[e])
          /\ (orch.pc = "pool" /\ task[e].pc = "acquire"
                 /\ Holders(StageAt(e)) # {}) => ~ENABLED Acquire(e)]_vars

\* C21 witness: a brand whose row of the stage is DONE waits for the
\* semaphore while another brand executes the worker of that stage
C21_Witness ==
    \E a \in Brands, b \in Brands :
        /\ orch.pc = "pool"
        /\ task[a].pc = "exec"
        /\ task[b].pc = "acquire"
        /\ StageAt(a) = StageAt(b)
        /\ Status(b, StageAt(b)) = "DONE"

\* the number of commands of the stage brand e is at
Units(e) == Len(Commands(StageAt(e)))

\* the row of stage s of brand e in the current batch after this step
RowAfter(e, s) == control'[<<orch.batch_id, e, s>>]

\* this step is the exit of the running command of brand e with a failure
UnitFails(e) == UnitExit(e, "nonzero") \/ UnitExit(e, "exception")

\* C22: multi-unit stage.  While the worker of a stage runs, the command it
\* is at is one of the stage's commands, reached by the exit 0 of each earlier
\* one: the only step that launches the next command is the exit 0 of the
\* running one, which leaves the row RUNNING.  A command that exits non-zero
\* or raises ends the stage at once with the row ERROR (no later command is
\* launched), and the row becomes DONE only by the exit 0 of the last command.
C22_MultiUnitStage ==
    [][\A e \in Brands :
          (orch.pc = "pool" /\ task[e].pc = "exec") =>
              /\ task[e].unit \in 1..Units(e)
              /\ (task'[e].pc = "exec" /\ task'[e] # task[e]) =>
                    /\ UnitExit(e, "exit0")
                    /\ task'[e].unit = task[e].unit + 1
                    /\ task'[e].idx = task[e].idx
                    /\ control' = control
              /\ UnitFails(e) =>
                    /\ RowAfter(e, StageAt(e)).status = "ERROR"
                    /\ task'[e].pc = "failed"
              /\ RowAfter(e, StageAt(e)).status = "DONE" =>
                    /\ UnitExit(e, "exit0")
                    /\ task[e].unit = Units(e)
              /\ (UnitExit(e, "exit0") /\ task[e].unit = Units(e)) =>
                    RowAfter(e, StageAt(e)).status = "DONE"]_vars

\* C22 witness: the image upload, launched after the image collection exited
\* 0, exited non-zero: IMAGE is ERROR with the uploader as diagnostic
C22_Witness ==
    \E e \in Brands :
        /\ task[e].pc = "failed"
        /\ StageAt(e) = "IMAGE"
        /\ Row(e, "IMAGE").status = "ERROR"
        /\ Row(e, "IMAGE").error_msg = "r2_image_uploader.py"

\* C23 (as claimed): error_message only on ERROR.  In every reachable state
\* a row whose error_msg is set has status ERROR.
C23_MessageOnlyOnError ==
    \A k \in ControlKeys :
        control[k].error_msg # None => control[k].status = "ERROR"

\* the note update_stage_status is given by the PARTIAL skip
SkipNote == "Skipped in PARTIAL mode"

\* C23 (amended): a row whose error_msg is set has status ERROR, or is a
\* CONVERT or IMAGE row of a PARTIAL batch that the policy skip wrote as DONE
\* with its note; a RUNNING row and a DONE row written after a worker
\* succeeded carry no error_msg, and every ERROR row carries one.
C23_MessageOnErrorOrSkip ==
    \A k \in ControlKeys :
        /\ control[k].error_msg # None =>
              \/ control[k].status = "ERROR" /\ control[k].error_msg # SkipNote
              \/ /\ control[k].status = "DONE"
                 /\ control[k].error_msg = SkipNote
                 /\ k[3] \in PartialSkipStages
                 /\ batches[k[1]].run_mode = "PARTIAL"
        /\ control[k].status = "ERROR" => control[k].error_msg # None
        /\ control[k].status \in {"PENDING", "RUNNING"} => control[k].error_msg = None

\* C23 witness: in a resumed PARTIAL batch the worker of PRICE runs again for
\* a brand whose PRICE row was ERROR (the message is gone with the write of
\* RUNNING), and the CONVERT row of the brand is DONE with the skip note
C23_Witness ==
    \E e \in Brands :
        /\ orch.run_mode = "PARTIAL"
        /\ task[e].pc = "exec"
        /\ task[e].status = "ERROR"
        /\ Row(e, StageAt(e)).error_msg = None
        /\ Row(e, "CONVERT").status = "DONE"
        /\ Row(e, "CONVERT").error_msg = SkipNote

\* C24 (as claimed): started_at is written once, on entry into RUNNING.  The
\* started_at of a row is set only by a write of RUNNING, and no write to an
\* existing row changes it.
C24_StartedOnRunning ==
    \A k \in ControlKeys :
        control[k].started_at # None => control[k].started_at = "RUNNING"

\* C24 (amended): started_at is written once, when the row is inserted,
\* whatever the status inserted: RUNNING by execute_worker, or DONE by a
\* policy skip of a stage that was never RUNNING.  Every write to an existing
\* row (to DONE, to ERROR, to RUNNING again in a resumed batch) leaves
\* started_at unchanged while it sets status and error_msg.
C24_StartedOnInsert ==
    [][\A k \in ControlKeys :
          /\ control[k] # NoRow => control'[k].started_at = control[k].started_at
          /\ (control[k] = NoRow /\ control'[k] # NoRow) =>
                /\ control'[k].started_at = control'[k].status
                /\ \/ control'[k].status = "RUNNING"
                   \/ /\ control'[k].status = "DONE"
                      /\ orch.run_mode = "PARTIAL"
                      /\ k[3] \in PartialSkipStages
          /\ control[k].started_at = None <=> control[k] = NoRow]_vars

\* C24 witness: a PARTIAL run is executing PRICE again for a brand whose PRICE
\* row was ERROR; the row keeps the started_at of its first RUNNING, and the
\* CONVERT row of the brand got its started_at from the skip
C24_Witness ==
    \E e \in Brands :
        /\ task[e].pc = "exec"
        /\ StageAt(e) = "PRICE"
        /\ task[e].status = "ERROR"
        /\ Row(e, "PRICE").started_at = "RUNNING"
        /\ Row(e, "CONVERT").started_at = "DONE"

\* C27: at most one RUNNING batch per run mode.  With one orchestrator process
\* at a time, pipeline_batches never holds two RUNNING rows of the same run
\* mode, whatever runs came before (completed, killed, without target brands).
C27_OneRunningBatchPerMode ==
    \A run_mode \in RunModes : Cardinality(RunningOf(run_mode)) <= 1

\* C27 witness: a second batch of a run mode was created after the first one
\* was completed, its run was interrupted, and the next run has taken it up
C27_Witness ==
    /\ Len(batches) = 2
    /\ batches[1].run_mode = batches[2].run_mode
    /\ batches[1].status = "COMPLETED"
    /\ batches[2].status = "RUNNING"
    /\ orch.resumed
    /\ orch.batch_id = 2
    /\ orch.pc = "pool"

\* the entities whose rows of all the stages of the run are DONE in its batch
DoneThroughout ==
    {e \in Brands : \A s \in Range(orch.stages) : Status(e, s) = "DONE"}

\* C28: DONE is prefix-closed.  In every batch and for every entity, a DONE row
\* of a stage means the rows of all the earlier stages of ALL_STAGES are DONE;
\* hence, for the run at work, the entities DONE at the final stage are the
\* entities DONE at every active stage.
C28_DonePrefixClosed ==
    /\ \A b \in 1..Len(batches), e \in Brands, i \in 1..Len(ALL_STAGES) :
          control[<<b, e, ALL_STAGES[i]>>].status = "DONE" =>
              \A j \in 1..(i - 1) : control[<<b, e, ALL_STAGES[j]>>].status = "DONE"
    /\ orch.pc \in {"pool", "done"} =>
          DoneAt(orch.batch_id, orch.final_stage) = DoneThroughout

\* C28 witness: a run resumed with a shorter --until than the stages already
\* DONE; one entity is DONE through PRICE, the other is being collected again
\* after an ERROR
C28_Witness ==
    /\ orch.resumed
    /\ orch.until_stage = "CONVERT"
    /\ \E e \in Brands, x \in Brands :
          /\ Status(e, "PRICE") = "DONE"
          /\ task[e].pc = "ok"
          /\ task[x].pc = "exec"
          /\ task[x].status = "ERROR"
          /\ StageAt(x) = "COLLECT"

\* a step of the pipeline of a brand other than a
OthersStep(a) ==
    \E x \in Brands \ {a} :
        \/ Begin(x)
        \/ Acquire(x)
        \/ Check(x)
        \/ \E outcome \in Outcomes : UnitExit(x, outcome)

\* brand e has not run yet, is not the brand of the running worker of stage s,
\* and the first stage of its pipeline is another stage, not DONE, whose
\* semaphore is free
Entitled(e, s) ==
    /\ e \in orch.brands
    /\ task[e].pc = "queued"
    /\ orch.stages[1] # s
    /\ Status(e, orch.stages[1]) # "DONE"
    /\ stage_locks[orch.stages[1]] > 0

\* C26 (as claimed): a stuck worker stalls only its stage.  While the worker of
\* stage s runs for brand a, a brand that is entitled to a free stage other
\* than s is not held up by it: some pipeline other than a's can take a step
\* without the worker of a exiting.
C26_StallsOnlyItsStage ==
    \A a \in Brands :
        (orch.pc = "pool" /\ task[a].pc = "exec") =>
            \A e \in Brands \ {a} :
                Entitled(e, StageAt(a)) => ENABLED OthersStep(a)

\* the pipelines that occupy a thread of the pool
Threads == {e \in Brands : task[e].pc \in Active}

\* C26 (amended): while the worker of stage s runs for brand a (for as long as
\* it does not exit): no other brand holds the semaphore of s or starts the
\* worker of s, the row of (a, s) is RUNNING, the batch stays RUNNING and
\* finish_batch is not reached; the other brands that have a pool thread go
\* on: one that waits for a free stage other than s can acquire it, one inside
\* another stage can take its step.  A brand still in the executor's queue
\* starts exactly when fewer than max_workers pipelines occupy a thread.
C26_StallsItsStage ==
    [][\A a \in Brands :
          (orch.pc = "pool" /\ task[a].pc = "exec") =>
            LET s == StageAt(a) IN
            /\ Status(a, s) = "RUNNING"
            /\ batches[orch.batch_id].status = "RUNNING"
            /\ ~ ENABLED finish_batch
            /\ \A e \in Brands \ {a} :
                  /\ ~ Holding(e, s)
                  /\ (task[e].pc = "acquire" /\ StageAt(e) = s) => ~ ENABLED Acquire(e)
                  /\ (task[e].pc = "acquire" /\ StageAt(e) # s
                        /\ Holders(StageAt(e)) = {}) => ENABLED Acquire(e)
                  /\ task[e].pc = "check" => ENABLED Check(e)
                  /\ task[e].pc = "exec" => ENABLED UnitExit(e, "exit0")
                  /\ task[e].pc = "queued" =>
                        (ENABLED Begin(e) <=> Cardinality(Threads) < orch.max_workers)
            /\ (task'[a].pc = "exec" /\ task'[a].idx = task[a].idx) =>
                  /\ \A e \in Brands \ {a} : ~ Launches(e, s)
                  /\ batches' = batches]_vars

\* C26 witness: the worker of CONVERT runs for one brand, a second brand holds
\* the other pool thread and waits for CONVERT, and the third brand, not
\* collected yet, is still in the queue while COLLECT is free
C26_Witness ==
    \E a \in Brands, b \in Brands, c \in Brands :
        /\ orch.pc = "pool"
        /\ task[a].pc = "exec" /\ StageAt(a) = "CONVERT"
        /\ task[b].pc = "acquire" /\ StageAt(b) = "CONVERT"
        /\ Entitled(c, "CONVERT")

\* C30 (as claimed): counter consistency.  Whenever a batch is COMPLETED, its
\* success_brands is at most its total_brands, also when the run that
\* completed it resumed the batch with another --brand, --exclude or --until
\* than the interrupted run.
C30_SuccessAtMostTotal ==
    \A b \in 1..Len(batches) :
        batches[b].status = "COMPLETED" =>
            batches[b].success_brands <= batches[b].total_brands

\* the row of pipeline_control that the pipeline of brand e works on
RowKey(e) == <<orch.batch_id, e, StageAt(e)>>

Inside == {e \in Brands : task[e].pc \in Active \ {"acquire"}}

\* C29: no deadlock.  A pipeline holds the semaphore of the stage it is
\* inside and no other: every semaphore is 1 minus the number of pipelines
\* inside its stage, so it was given back on every way out of the stage (DONE
\* skip, PARTIAL skip, worker success, worker failure, exception).  A
\* pipeline that waits for a stage semaphore does not hold db_lock.  Hence,
\* while the pool has unfinished pipelines and no worker is running, some
\* pipeline can take a step.
C29_NoDeadlock ==
    /\ \A s \in DOMAIN stage_locks :
          /\ stage_locks[s] \in {0, 1}
          /\ stage_locks[s] = 1 - Cardinality(Holders(s))
    /\ orch.pc = "pool" =>
          Cardinality(Inside) =
              Cardinality({s \in DOMAIN stage_locks : stage_locks[s] = 0})
    /\ \A e \in Brands : task[e].pc \in {"acquire", "queued"} \cup Terminal => e \notin db_lock
    /\ (orch.pc = "pool" /\ ~ AllJoined /\ \A e \in Brands : task[e].pc # "exec")
          => ENABLED PipelinesByLock

\* C29 witness: no worker is running; one pipeline is inside CONVERT and holds
\* db_lock, the other one has left COLLECT and waits for the semaphore of
\* CONVERT
C29_Witness ==
    \E a \in Brands, b \in Brands :
        /\ orch.pc = "pool"
        /\ db_lock = {a}
        /\ task[a].pc = "mark" /\ StageAt(a) = "CONVERT"
        /\ task[b].pc = "acquire" /\ StageAt(b) = "CONVERT"
        /\ launched[b] = {"COLLECT"}

=============================================================================
